---- MODULE Spec2Model ----
(***************************************************************************)
(* Model of the repository-update agent of project-management-agents:      *)
(* UpdateRepositoriesAgent.run and the functions it calls                  *)
(* (src/agents/update_repositories/update_repositories_agent.py).          *)
(*                                                                         *)
(* The environment of the agent is the file system and the Git state of    *)
(* every located repository.  A repository is a record:                    *)
(*   name      the name the locator gave it                                *)
(*   dir       "present" | "missing" | "denied" (stat of the path fails    *)
(*             with a permission error, so Path.exists() raises)           *)
(*   git       the directory is a readable Git repository                  *)
(*   unstaged  tracked files differ from the index                         *)
(*   staged    the index differs from HEAD                                 *)
(*   untracked number of untracked, non-ignored files                      *)
(*   marker    a work-tree diff entry shows a conflict marker              *)
(*   reverts   the work-tree change restores the content of HEAD           *)
(*   remote    a remote "origin" is configured                             *)
(*   ahead     commits of the branch that origin/<branch> lacks            *)
(*   behind    commits of origin/<branch> that the branch lacks            *)
(*   remoteNew commits of the remote not fetched yet                       *)
(*   faults    the git queries that raise in this environment.  GitPython  *)
(*             runs Repo.is_dirty() and index.diff() through `git diff`,   *)
(*             Repo.untracked_files and git.status() through `git status`, *)
(*             remote.fetch() through `git fetch` and iter_commits()       *)
(*             through `git rev-list`: "rev_list" when every such call     *)
(*             raises (origin/<branch> does not exist), "rev_list_behind"  *)
(*             when the second call of get_repo_status raises.             *)
(***************************************************************************)
EXTENDS Integers, Sequences, FiniteSets, TLC

\* ---------------------------------------------------------------- bounds
MaxRepos == 3
MaxAhead == 2
MaxBehind == 3
MaxUntracked == 1

VARIABLES
    repos,              \* the located repositories and their state on disk
    agents,             \* the directory agents/project-management-agents
    auto_commit,        \* run(auto_commit=...)
    dry_run,            \* run(dry_run=...)
    ensure_agents_repo, \* run(ensure_agents_repo=...)
    repo_name,          \* run(repo_name=...), "none" for None
    pc,                 \* the position of run / update_repository
    todo,               \* run: the filtered list `repos` (indices)
    idx,                \* run: the position of the for loop in todo
    status,             \* update_repository: the local `status`
    first_status,       \* update_repository: the status of the first inspection
    result,             \* update_repository: the local `result`
    results,            \* run: the list `results`
    log,                \* every git / GitHub operation invoked, in order
    ret,                \* what run returned or raised, "none" while running
    exit_code,          \* main: the exit status of the process, -1 while running
    fs,                 \* get_repositories_list: the configuration and the disk
    located,            \* get_repositories_list: the local list `repos`
    collections,        \* merge_postman_collections: the files it is given
    combined,           \* merge_postman_collections: combined["item"]
    cidx                \* merge_postman_collections: the position of its loop

vars == <<repos, agents, auto_commit, dry_run, ensure_agents_repo, repo_name,
          pc, todo, idx, status, first_status, result, results, log, ret,
          exit_code, fs, located, collections, combined, cidx>>

\* ------------------------------------------------------- error messages
ErrNoDir == "Directorio no existe"
ErrInvalid == "No es un repositorio Git valido"
ErrNoSuchPath == "NoSuchPathError"
ErrConflicts == "Conflictos detectados - requiere resolucion manual"
ErrCommit == "Error al hacer commit automatico"
ErrPull == "Error al hacer pull"
ErrPush == "Error al hacer push"
ErrUnexpected == "PermissionError"

\* The warning pull_repository logs when it refuses a pull; it is a log line.
WarnLocalChanges == "Hay cambios locales sin commit"

QueryFaults == {"diff", "status", "fetch", "rev_list", "rev_list_behind"}

Range(sq) == {sq[k] : k \in 1..Len(sq)}

\* ------------------------------------------------------ get_repo_status
\* remote.fetch(): origin/<branch> catches up with the remote.
AfterFetch(r) ==
    IF r.git /\ r.remote /\ "fetch" \notin r.faults
    THEN [r EXCEPT !.behind = @ + r.remoteNew, !.remoteNew = 0]
    ELSE r

\* The fetch get_repo_status invokes when the repository has a remote.
FetchEvents(i, r) ==
    IF r.dir = "present" /\ r.git /\ r.remote
    THEN <<[repo |-> i, ev |-> "git_fetch"]>>
    ELSE <<>>

\* git status --porcelain prints at least one line.
PorcelainNonEmpty(r) == r.staged \/ r.unstaged \/ r.untracked > 0

\* Repo.is_dirty() with its defaults: index and work tree, not untracked files.
is_dirty(r) == r.staged \/ r.unstaged

\* is_dirty and untracked_count of get_repo_status, with the porcelain fallback.
DirtyFlags(r) ==
    IF "diff" \notin r.faults
    THEN [is_dirty |-> is_dirty(r),
          untracked |-> IF "status" \notin r.faults THEN r.untracked ELSE 0]
    ELSE IF "status" \notin r.faults
         THEN [is_dirty |-> PorcelainNonEmpty(r), untracked |-> r.untracked]
         ELSE [is_dirty |-> FALSE, untracked |-> 0]

\* Faulty variant: ahead is stored as soon as it is counted, before the
\* commits behind are listed.
AheadBehind_partial(r) ==
    IF r.remote /\ "rev_list" \notin r.faults
    THEN [ahead |-> r.ahead,
          behind |-> IF "rev_list_behind" \in r.faults THEN 0 ELSE r.behind]
    ELSE [ahead |-> 0, behind |-> 0]

\* ahead and behind of get_repo_status (lines 277-287): both lists of commits
\* are computed before either count is stored, so both are set or both stay 0.
AheadBehind(r) ==
    IF r.remote /\ r.faults \cap {"rev_list", "rev_list_behind"} = {}
    THEN [ahead |-> r.ahead, behind |-> r.behind]
    ELSE [ahead |-> 0, behind |-> 0]

\* has_conflicts of get_repo_status: evaluated only when is_dirty.
HasConflicts(r) ==
    /\ DirtyFlags(r).is_dirty
    /\ "diff" \notin r.faults
    /\ r.unstaged
    /\ r.marker

InvalidStatus(msg) ==
    [valid |-> FALSE, error |-> msg, is_dirty |-> FALSE, untracked_files |-> 0,
     ahead |-> 0, behind |-> 0, has_conflicts |-> FALSE]

\* Faulty variant: a query that raises makes the whole inspection fail.
get_repo_status_strict(r) ==
    IF r.dir # "present" THEN InvalidStatus(ErrNoSuchPath)
    ELSE IF ~r.git THEN InvalidStatus(ErrInvalid)
    ELSE IF r.faults # {} THEN InvalidStatus("GitCommandError")
    ELSE LET f == AfterFetch(r) IN
         [valid |-> TRUE, error |-> "",
          is_dirty |-> DirtyFlags(f).is_dirty,
          untracked_files |-> DirtyFlags(f).untracked,
          ahead |-> AheadBehind(f).ahead,
          behind |-> AheadBehind(f).behind,
          has_conflicts |-> HasConflicts(f)]

\* The dictionary get_repo_status returns; the repository is then AfterFetch(r).
get_repo_status(r) ==
    IF r.dir # "present" THEN InvalidStatus(ErrNoSuchPath)
    ELSE IF ~r.git THEN InvalidStatus(ErrInvalid)
    ELSE LET f == AfterFetch(r) IN
         [valid |-> TRUE, error |-> "",
          is_dirty |-> DirtyFlags(f).is_dirty,
          untracked_files |-> DirtyFlags(f).untracked,
          ahead |-> AheadBehind(f).ahead,
          behind |-> AheadBehind(f).behind,
          has_conflicts |-> HasConflicts(f)]

NoStatus == InvalidStatus("")

\* ------------------------------------------------------- commit_changes
Ev(i, name) == [repo |-> i, ev |-> name]

\* Faulty variant: "nothing to commit" is reported as a failure.
PreCheck_strict(r) ==
    IF "status" \in r.faults THEN "error"
    ELSE IF "diff" \notin r.faults
         THEN IF ~r.unstaged /\ r.untracked = 0 THEN "error" ELSE "changes"
         ELSE IF ~PorcelainNonEmpty(r) THEN "error" ELSE "changes"

\* The check "is there anything to commit" that opens commit_changes:
\* index.diff(None) and untracked_files, then git status --porcelain.
PreCheck(r) ==
    IF "status" \in r.faults THEN "error"
    ELSE IF "diff" \notin r.faults
         THEN IF ~r.unstaged /\ r.untracked = 0 THEN "nothing" ELSE "changes"
         ELSE IF ~PorcelainNonEmpty(r) THEN "nothing" ELSE "changes"

\* repo.git.add(A=True): the index becomes the work tree.
StageAll(r) ==
    [r EXCEPT !.staged = IF r.reverts THEN r.untracked > 0
                         ELSE (r.staged \/ r.unstaged \/ r.untracked > 0),
              !.unstaged = FALSE, !.untracked = 0,
              !.marker = FALSE, !.reverts = FALSE]

\* The check after staging: index.diff("HEAD") and untracked_files, then
\* git diff --cached; when every query raises the commit is tried anyway.
PostAddCheck(r) ==
    IF "diff" \in r.faults \/ "status" \in r.faults THEN "commit"
    ELSE IF ~r.staged /\ r.untracked = 0 THEN "nothing" ELSE "commit"

\* repo.index.commit(message): one more local commit, the index equals HEAD.
CreateCommit(r) == [r EXCEPT !.staged = FALSE, !.ahead = @ + 1]

\* Faulty variant: commit_changes without its dry-run return.
commit_changes_nodry(i, r, dry, addOk, commitOk) ==
    IF ~r.git THEN [ok |-> FALSE, repo |-> r, ev |-> <<>>]
    ELSE IF PreCheck(r) = "nothing" THEN [ok |-> TRUE, repo |-> r, ev |-> <<>>]
    ELSE IF PreCheck(r) = "error" THEN [ok |-> FALSE, repo |-> r, ev |-> <<>>]
    ELSE IF ~addOk THEN [ok |-> FALSE, repo |-> r, ev |-> <<Ev(i, "git_add")>>]
    ELSE IF PostAddCheck(StageAll(r)) = "nothing"
         THEN [ok |-> TRUE, repo |-> StageAll(r), ev |-> <<Ev(i, "git_add")>>]
    ELSE IF commitOk
         THEN [ok |-> TRUE, repo |-> CreateCommit(StageAll(r)),
               ev |-> <<Ev(i, "git_add"), Ev(i, "git_commit")>>]
    ELSE [ok |-> FALSE, repo |-> StageAll(r),
          ev |-> <<Ev(i, "git_add"), Ev(i, "git_commit")>>]

\* commit_changes(repo_path, dry_run); addOk and commitOk are the outcomes of
\* git add and of index.commit.  Returns the value, the repository and the
\* operations invoked.
commit_changes(i, r, dry, addOk, commitOk) ==
    IF ~r.git THEN [ok |-> FALSE, repo |-> r, ev |-> <<>>]
    ELSE IF PreCheck(r) = "nothing" THEN [ok |-> TRUE, repo |-> r, ev |-> <<>>]
    ELSE IF PreCheck(r) = "error" THEN [ok |-> FALSE, repo |-> r, ev |-> <<>>]
    ELSE IF dry THEN [ok |-> TRUE, repo |-> r, ev |-> <<>>]
    ELSE IF ~addOk THEN [ok |-> FALSE, repo |-> r, ev |-> <<Ev(i, "git_add")>>]
    ELSE IF PostAddCheck(StageAll(r)) = "nothing"
         THEN [ok |-> TRUE, repo |-> StageAll(r), ev |-> <<Ev(i, "git_add")>>]
    ELSE IF commitOk
         THEN [ok |-> TRUE, repo |-> CreateCommit(StageAll(r)),
               ev |-> <<Ev(i, "git_add"), Ev(i, "git_commit")>>]
    ELSE [ok |-> FALSE, repo |-> StageAll(r),
          ev |-> <<Ev(i, "git_add"), Ev(i, "git_commit")>>]

\* ------------------------------------------------------ pull_repository
PullOutcomes == {"ok", "error", "conflict"}

\* origin.pull(): fetch and merge; a merge of diverged histories adds a commit.
Merged(r) ==
    [r EXCEPT !.behind = 0, !.remoteNew = 0,
              !.ahead = IF r.ahead > 0 /\ r.behind + r.remoteNew > 0
                        THEN @ + 1 ELSE @]

\* A pull that stops on a merge conflict leaves unmerged files behind.
MergeConflict(r) == [r EXCEPT !.unstaged = TRUE, !.marker = TRUE]

\* Faulty variant: pull_repository without its check for local changes.
PullRefused_never(r) == FALSE

\* The guard of pull_repository: repo.is_dirty() raises or reports changes.
PullRefused(r) == "diff" \in r.faults \/ is_dirty(r)

\* pull_repository(repo_path, dry_run); out is the outcome of origin.pull().
pull_repository(i, r, dry, out) ==
    IF ~r.git THEN [ok |-> FALSE, repo |-> r, ev |-> <<>>]
    ELSE IF dry THEN [ok |-> TRUE, repo |-> r, ev |-> <<>>]
    ELSE IF PullRefused(r) THEN [ok |-> FALSE, repo |-> r, ev |-> <<>>]
    ELSE IF ~r.remote THEN [ok |-> FALSE, repo |-> r, ev |-> <<>>]
    ELSE IF out = "ok"
         THEN [ok |-> TRUE, repo |-> Merged(r), ev |-> <<Ev(i, "git_pull")>>]
    ELSE IF out = "conflict" /\ r.ahead > 0 /\ r.behind + r.remoteNew > 0
         THEN [ok |-> FALSE, repo |-> MergeConflict(r),
               ev |-> <<Ev(i, "git_pull")>>]
    ELSE [ok |-> FALSE, repo |-> r, ev |-> <<Ev(i, "git_pull")>>]

\* ------------------------------------------------------ push_repository
\* origin.push() returns without raising whether or not the remote took the
\* commits (GitPython reports a rejected push in the PushInfo flags, which the
\* caller does not read); the remote takes them only as a fast-forward.
PushEffect(r) ==
    IF r.behind = 0 /\ r.remoteNew = 0 THEN [r EXCEPT !.ahead = 0] ELSE r

\* Faulty variant: push_repository pulls before it pushes.
push_repository_pulls(i, r, dry, pushOk) ==
    IF ~r.git THEN [ok |-> FALSE, repo |-> r, ev |-> <<>>]
    ELSE LET f == AfterFetch(r)
             fe == FetchEvents(i, r) IN
         IF get_repo_status(r).ahead = 0
         THEN [ok |-> TRUE, repo |-> f, ev |-> fe]
         ELSE IF dry THEN [ok |-> TRUE, repo |-> f, ev |-> fe]
         ELSE IF ~f.remote THEN [ok |-> FALSE, repo |-> f, ev |-> fe]
         ELSE IF pushOk
              THEN [ok |-> TRUE, repo |-> PushEffect(Merged(f)),
                    ev |-> fe \o <<Ev(i, "git_pull"), Ev(i, "git_push")>>]
         ELSE [ok |-> FALSE, repo |-> f, ev |-> fe \o <<Ev(i, "git_push")>>]

\* push_repository(repo_path, dry_run): re-inspects the repository first.
\* pushOk: origin.push() does not raise.
push_repository(i, r, dry, pushOk) ==
    IF ~r.git THEN [ok |-> FALSE, repo |-> r, ev |-> <<>>]
    ELSE LET f == AfterFetch(r)
             fe == FetchEvents(i, r) IN
         IF get_repo_status(r).ahead = 0
         THEN [ok |-> TRUE, repo |-> f, ev |-> fe]
         ELSE IF dry THEN [ok |-> TRUE, repo |-> f, ev |-> fe]
         ELSE IF ~f.remote THEN [ok |-> FALSE, repo |-> f, ev |-> fe]
         ELSE IF pushOk
              THEN [ok |-> TRUE, repo |-> PushEffect(f),
                    ev |-> fe \o <<Ev(i, "git_push")>>]
         ELSE [ok |-> FALSE, repo |-> f, ev |-> fe \o <<Ev(i, "git_push")>>]

\* ----------------------------------------------------- handle_conflicts
\* Faulty variant: conflicts are never reported to update_repository.
handle_conflicts_ignored(r) == TRUE

\* True when no conflict is reported; it inspects the repository again.
handle_conflicts(r) == ~get_repo_status(r).has_conflicts

\* ------------------------------------------- ensure_agents_repo_exists
\* The agents directory: gitDir (it holds .git), origin ("none", "match" when
\* the URL of origin names the repository, "other"), client (a token client).
GhOutcomes == {"absent", "exists", "created_pushed", "created", "failed"}
ApiOutcomes == {"exists", "created", "failed"}

EvA(name) == [repo |-> 0, ev |-> name]

\* Faulty variant: initialize_repo without its dry-run return.
initialize_repo_nodry(a, dry, initOk) ==
    IF a.gitDir THEN [ok |-> TRUE, agents |-> a, ev |-> <<>>]
    ELSE IF initOk
         THEN [ok |-> TRUE, agents |-> [a EXCEPT !.gitDir = TRUE],
               ev |-> <<EvA("git_init")>>]
    ELSE [ok |-> FALSE, agents |-> a, ev |-> <<EvA("git_init")>>]

\* initialize_repo(agents_dir, dry_run=dry_run); initOk: Repo.init succeeds.
initialize_repo(a, dry, initOk) ==
    IF a.gitDir THEN [ok |-> TRUE, agents |-> a, ev |-> <<>>]
    ELSE IF dry THEN [ok |-> TRUE, agents |-> a, ev |-> <<>>]
    ELSE IF initOk
         THEN [ok |-> TRUE, agents |-> [a EXCEPT !.gitDir = TRUE],
               ev |-> <<EvA("git_init")>>]
    ELSE [ok |-> FALSE, agents |-> a, ev |-> <<EvA("git_init")>>]

\* create_github_repo_with_gh_cli: the repository information, or None.
\* gh repo create --remote origin configures origin when there is none.
\* The operations are gh --version, gh repo view and gh repo create; the
\* last event is what the function returned.
create_github_repo_with_gh_cli(a, dry, gh) ==
    IF dry THEN [info |-> TRUE, agents |-> a, ev |-> <<EvA("cli_info")>>]
    ELSE IF gh = "absent"
         THEN [info |-> FALSE, agents |-> a,
               ev |-> <<EvA("gh_version"), EvA("cli_none")>>]
    ELSE IF gh = "exists"
         THEN [info |-> TRUE, agents |-> a,
               ev |-> <<EvA("gh_version"), EvA("gh_view"), EvA("cli_info")>>]
    ELSE IF gh \in {"created_pushed", "created"}
         THEN [info |-> TRUE,
               agents |-> [a EXCEPT !.origin = IF @ = "none" THEN "match" ELSE @],
               ev |-> <<EvA("gh_version"), EvA("gh_view"), EvA("gh_create"),
                        EvA("cli_info")>>]
    ELSE [info |-> FALSE, agents |-> a,
          ev |-> <<EvA("gh_version"), EvA("gh_view"), EvA("gh_create"),
                   EvA("cli_none")>>]

\* The token-based part of create_github_repo, lines 574-623: get_repo_info,
\* then create_repo; the last event is what create_github_repo returned.
ApiCreate(a, dry, api) ==
    IF ~a.client THEN [info |-> FALSE, ev |-> <<EvA("create_none")>>]
    ELSE IF api = "exists"
         THEN [info |-> TRUE, ev |-> <<EvA("api_get"), EvA("create_info")>>]
    ELSE IF dry THEN [info |-> TRUE, ev |-> <<EvA("api_get"), EvA("create_info")>>]
    ELSE IF api = "created"
         THEN [info |-> TRUE,
               ev |-> <<EvA("api_get"), EvA("api_create"), EvA("create_info")>>]
    ELSE [info |-> FALSE,
          ev |-> <<EvA("api_get"), EvA("api_create"), EvA("create_none")>>]

\* Faulty variant: the token-based API is tried before the CLI.
create_github_repo_api_first(a, dry, gh, api) ==
    LET tok == ApiCreate(a, dry, api)
        cli == create_github_repo_with_gh_cli(a, dry, gh) IN
    IF tok.info THEN [info |-> TRUE, agents |-> a, ev |-> tok.ev]
    ELSE [info |-> cli.info, agents |-> cli.agents,
          ev |-> tok.ev \o cli.ev \o
                 <<EvA(IF cli.info THEN "create_info" ELSE "create_none")>>]

\* create_github_repo: the CLI first, then the API when a client is configured.
create_github_repo(a, dry, gh, api) ==
    LET cli == create_github_repo_with_gh_cli(a, dry, gh) IN
    IF cli.info
    THEN [info |-> TRUE, agents |-> cli.agents,
          ev |-> cli.ev \o <<EvA("create_info")>>]
    ELSE LET tok == ApiCreate(cli.agents, dry, api) IN
         [info |-> tok.info, agents |-> cli.agents, ev |-> cli.ev \o tok.ev]

\* The remote configuration that closes ensure_agents_repo_exists.
ConfigureRemote(a, info, dry) ==
    IF ~info \/ dry THEN [agents |-> a, ev |-> <<>>]
    ELSE IF a.origin = "none"
         THEN [agents |-> [a EXCEPT !.origin = "match"],
               ev |-> <<EvA("create_remote")>>]
    ELSE IF a.origin = "other"
         THEN [agents |-> [a EXCEPT !.origin = "match"], ev |-> <<EvA("set_url")>>]
    ELSE [agents |-> a, ev |-> <<>>]

\* ensure_agents_repo_exists(dry_run): raised when Repo(agents_dir) raises,
\* which is not inside any try.
ensure_agents_repo_exists(a, dry, initOk, gh, api) ==
    LET ini == IF a.gitDir THEN [ok |-> TRUE, agents |-> a, ev |-> <<>>]
               ELSE initialize_repo(a, dry, initOk) IN
    IF ~ini.ok
    THEN [raised |-> FALSE, value |-> FALSE, agents |-> ini.agents, ev |-> ini.ev]
    ELSE IF ~ini.agents.gitDir
    THEN [raised |-> TRUE, value |-> FALSE, agents |-> ini.agents, ev |-> ini.ev]
    ELSE IF ini.agents.origin = "match"
    THEN [raised |-> FALSE, value |-> TRUE, agents |-> ini.agents, ev |-> ini.ev]
    ELSE LET cr == create_github_repo(ini.agents, dry, gh, api)
             cf == ConfigureRemote(cr.agents, cr.info, dry) IN
         [raised |-> FALSE, value |-> TRUE, agents |-> cf.agents,
          ev |-> ini.ev \o cr.ev \o cf.ev]

\* ------------------------------------------------- get_repositories_list
\* The environment of the locator, fs:
\*   file         config/github-config.json: "absent", "malformed" (not
\*                JSON) or "valid"
\*   config       github_config is truthy (the file is valid and not empty)
\*   repositories the list "repositories" of the configuration
\*   local_paths  the mapping "local_paths": a path, or "none" for no entry
\*   dirs         the directories on disk, each a record
\*                  git    the directory exists and holds .git
\*                  opens  Repo(path) succeeds
\*                  url    "none" (no remote), "own" (the URL of origin names
\*                         the directory), "other" (it names another repository)
\*   client       a token client is configured
\*   org          what get_organization_repos returns: the names, or "fail"
Names == {"svc-a", "svc-b"}

AgentsPath == "agents/project-management-agents"
AgentsName == "project-management-agents"

\* The immediate subdirectories of services/ and agents/, in scanning order.
Scanned == <<"services/svc-a", "services/svc-b", AgentsPath>>

NoDir == [git |-> FALSE, opens |-> FALSE, url |-> "none"]

NoFs ==
    [file |-> "absent", config |-> FALSE, repositories |-> <<>>,
     local_paths |-> [n \in Names |-> "none"],
     dirs |-> [p \in Range(Scanned) |-> NoDir],
     client |-> FALSE, org |-> [ok |-> FALSE, names |-> <<>>]]

\* item.name of a scanned directory.
DirName(p) ==
    IF p = "services/svc-a" THEN "svc-a"
    ELSE IF p = "services/svc-b" THEN "svc-b"
    ELSE AgentsName

\* The name the URL of origin gives when it names another repository.
OtherName(p) == IF p = "services/svc-a" THEN "svc-b" ELSE "svc-a"

\* The candidate directory of a repository name (lines 69-80 and 131-142):
\* the first of <base>/<name>, <base>/services/<name>, <base>/mcp/<name>
\* that exists and holds .git, or "none".
CandidatePath(f, n) ==
    LET p == IF n = "svc-a" THEN "services/svc-a" ELSE "services/svc-b" IN
    IF f.dirs[p].git THEN p ELSE "none"

Ref(n, p) == [name |-> n, local_path |-> p]

\* Step 1, lines 60-87: one entry for each listed name that has a mapped
\* path or an accepted candidate directory, in the order of the list.
RECURSIVE FromConfig(_, _)
FromConfig(f, k) ==
    IF ~f.config \/ k > Len(f.repositories) THEN <<>>
    ELSE LET n == f.repositories[k]
             lp == IF f.local_paths[n] # "none" THEN f.local_paths[n]
                   ELSE CandidatePath(f, n)
         IN (IF lp # "none" THEN <<Ref(n, lp)>> ELSE <<>>) \o FromConfig(f, k + 1)

\* The name _detect_local_git_repos and step 3 read from the URL of origin.
NameFromUrl(p, d) == IF d.url = "other" THEN OtherName(p) ELSE DirName(p)

\* _detect_local_git_repos, lines 172-206: the scanned directories that
\* hold .git, open as a repository and have a remote.
RECURSIVE DetectLocal(_, _)
DetectLocal(f, k) ==
    IF k > Len(Scanned) THEN <<>>
    ELSE LET p == Scanned[k]
             d == f.dirs[p]
         IN (IF d.git /\ d.opens /\ d.url # "none"
             THEN <<Ref(NameFromUrl(p, d), p)>> ELSE <<>>) \o DetectLocal(f, k + 1)

\* Faulty variant: the local scan runs whatever the configuration gave.
NeedsDetection_always(list) == TRUE

\* if not repos (line 90)
NeedsDetection(list) == list = <<>>

\* Step 3, lines 95-121: the agents repository joins the list when it holds
\* .git, no entry has its path and Repo() opens it.
AddAgents(f, list) ==
    LET d == f.dirs[AgentsPath] IN
    IF d.git /\ ~(\E r \in Range(list) : r.local_path = AgentsPath) /\ d.opens
    THEN Append(list, Ref(NameFromUrl(AgentsPath, d), AgentsPath))
    ELSE list

\* Lines 124-151: the repositories of the organization that have a candidate
\* directory, when a client is configured and the list is still empty.
RECURSIVE FromApi(_, _)
FromApi(f, k) ==
    IF ~f.org.ok \/ k > Len(f.org.names) THEN <<>>
    ELSE LET n == f.org.names[k] IN
         (IF CandidatePath(f, n) # "none" THEN <<Ref(n, CandidatePath(f, n))>>
          ELSE <<>>) \o FromApi(f, k + 1)

\* ConfigLoader.load_github_config: FileNotFoundError when the file does not
\* exist; json.load raises JSONDecodeError on a file that is not JSON.
load_github_config(f) ==
    IF f.file = "absent" THEN "FileNotFoundError"
    ELSE IF f.file = "malformed" THEN "JSONDecodeError"
    ELSE "loaded"

\* __init__, lines 43-47: FileNotFoundError is the one exception handled
\* (github_config becomes None); any other leaves the constructor, and no
\* repository list is resolved.
LoadConfig ==
    /\ pc = "l_init"
    /\ pc' = IF load_github_config(fs) \in {"loaded", "FileNotFoundError"}
             THEN "l_config" ELSE "l_raised"
    /\ UNCHANGED <<repos, agents, auto_commit, dry_run, ensure_agents_repo,
                   repo_name, todo, idx, status, first_status, result, results,
                   log, ret, exit_code, fs, located>>
    /\ UNCHANGED <<collections, combined, cidx>>

\* The steps of get_repositories_list, in order.
LocateFromConfig ==
    /\ pc = "l_config"
    /\ located' = FromConfig(fs, 1)
    /\ pc' = "l_detect"
    /\ UNCHANGED <<repos, agents, auto_commit, dry_run, ensure_agents_repo,
                   repo_name, todo, idx, status, first_status, result, results,
                   log, ret, exit_code, fs>>
    /\ UNCHANGED <<collections, combined, cidx>>

LocateDetect ==
    /\ pc = "l_detect"
    /\ located' = IF NeedsDetection(located) THEN DetectLocal(fs, 1) ELSE located
    /\ pc' = "l_agents"
    /\ UNCHANGED <<repos, agents, auto_commit, dry_run, ensure_agents_repo,
                   repo_name, todo, idx, status, first_status, result, results,
                   log, ret, exit_code, fs>>
    /\ UNCHANGED <<collections, combined, cidx>>

LocateAgents ==
    /\ pc = "l_agents"
    /\ located' = AddAgents(fs, located)
    /\ pc' = "l_api"
    /\ UNCHANGED <<repos, agents, auto_commit, dry_run, ensure_agents_repo,
                   repo_name, todo, idx, status, first_status, result, results,
                   log, ret, exit_code, fs>>
    /\ UNCHANGED <<collections, combined, cidx>>

LocateFromApi ==
    /\ pc = "l_api"
    /\ located' = IF fs.client /\ located = <<>> THEN FromApi(fs, 1) ELSE located
    /\ pc' = "l_return"
    /\ UNCHANGED <<repos, agents, auto_commit, dry_run, ensure_agents_repo,
                   repo_name, todo, idx, status, first_status, result, results,
                   log, ret, exit_code, fs>>
    /\ UNCHANGED <<collections, combined, cidx>>

\* -------------------------------------------------------------------- run
\* run, lines 925-929: the agents repository is ensured before the batch.
EnsureAgentsRepo ==
    /\ pc = "ensure"
    /\ IF ~ensure_agents_repo
       THEN /\ pc' = "locate"
            /\ UNCHANGED <<agents, log, ret>>
       ELSE \E initOk \in BOOLEAN, gh \in GhOutcomes, api \in ApiOutcomes :
              LET e == ensure_agents_repo_exists(agents, dry_run, initOk, gh, api) IN
              /\ agents' = e.agents
              /\ log' = log \o e.ev
              /\ pc' = IF e.raised THEN "raised" ELSE "locate"
              /\ ret' = IF e.raised THEN "InvalidGitRepositoryError" ELSE ret
    /\ UNCHANGED <<repos, auto_commit, dry_run, ensure_agents_repo, repo_name,
                   todo, idx, status, first_status, result, results>>
    /\ UNCHANGED <<exit_code, fs, located>>
    /\ UNCHANGED <<collections, combined, cidx>>

\* Faulty variant: the filter keeps only the first repository of that name.
RECURSIVE Filtered_first(_, _, _)
Filtered_first(rs, sel, i) ==
    IF i > Len(rs) THEN <<>>
    ELSE IF sel = "none" THEN <<i>> \o Filtered_first(rs, sel, i + 1)
    ELSE IF rs[i].name = sel THEN <<i>>
    ELSE Filtered_first(rs, sel, i + 1)

\* The indices of the located repositories the name filter keeps, in order.
RECURSIVE Filtered(_, _, _)
Filtered(rs, sel, i) ==
    IF i > Len(rs) THEN <<>>
    ELSE IF sel = "none" \/ rs[i].name = sel
         THEN <<i>> \o Filtered(rs, sel, i + 1)
    ELSE Filtered(rs, sel, i + 1)

\* run, lines 931-944: the repositories are listed and filtered by name.
Locate ==
    /\ pc = "locate"
    /\ todo' = Filtered(repos, repo_name, 1)
    /\ IF todo' = <<>>
       THEN pc' = "done" /\ ret' = "false" /\ idx' = idx
       ELSE pc' = "inspect" /\ ret' = ret /\ idx' = 1
    /\ UNCHANGED <<repos, agents, auto_commit, dry_run, ensure_agents_repo,
                   repo_name, status, first_status, result, results, log>>
    /\ UNCHANGED <<exit_code, fs, located>>
    /\ UNCHANGED <<collections, combined, cidx>>

\* ------------------------------------------------------ update_repository
\* Faulty variant: the result starts as successful.
NewResult_success(name) ==
    [name |-> name, success |-> TRUE, pulled |-> FALSE, pushed |-> FALSE,
     committed |-> FALSE, has_conflicts |-> FALSE, errors |-> <<>>]

NewResult(name) ==
    [name |-> name, success |-> FALSE, pulled |-> FALSE, pushed |-> FALSE,
     committed |-> FALSE, has_conflicts |-> FALSE, errors |-> <<>>]

\* Faulty variant: the error of a failed step is not recorded.
RecordError_lost(res, msg) == res

\* result["errors"].append(msg)
RecordError(res, msg) == [res EXCEPT !.errors = Append(@, msg)]

\* update_repository, lines 742-777: the directory, the inspection, the
\* validity of the status and the conflicts, each with its early return.
Inspect ==
    /\ pc = "inspect"
    /\ LET i == todo[idx]
           r == repos[i]
           res == NewResult(r.name)
           s == get_repo_status(r)
           r1 == AfterFetch(r)
           r2 == AfterFetch(r1)
       IN
       /\ r.dir # "denied"
       /\ IF r.dir = "missing"
          THEN /\ result' = RecordError(res, ErrNoDir)
               /\ status' = NoStatus
               /\ pc' = "append"
               /\ UNCHANGED <<repos, log>>
          ELSE IF ~s.valid
          THEN /\ result' = RecordError(res, s.error)
               /\ status' = s
               /\ pc' = "append"
               /\ UNCHANGED <<repos, log>>
          ELSE /\ repos' = [repos EXCEPT ![i] = r2]
               /\ log' = log \o FetchEvents(i, r) \o FetchEvents(i, r1)
               /\ status' = s
               /\ IF ~handle_conflicts(r1)
                  THEN /\ result' = RecordError([res EXCEPT !.has_conflicts = TRUE],
                                                ErrConflicts)
                       /\ pc' = "append"
                  ELSE /\ result' = res
                       /\ pc' = "commit"
       /\ first_status' = status'
    /\ UNCHANGED <<agents, auto_commit, dry_run, ensure_agents_repo, repo_name,
                   todo, idx, results, ret>>
    /\ UNCHANGED <<exit_code, fs, located>>
    /\ UNCHANGED <<collections, combined, cidx>>

\* has_changes of update_repository: the porcelain output, or the status.
HasChanges(r, st) ==
    IF "status" \notin r.faults THEN PorcelainNonEmpty(r)
    ELSE st.is_dirty \/ st.untracked_files > 0

\* Faulty variant: the status is not refreshed after the commit.
StatusAfterCommit_stale(st, r) == st

\* status = self.get_repo_status(repo_path) after a commit (line 795).
StatusAfterCommit(st, r) == get_repo_status(r)

\* update_repository, lines 779-800: the commit step.
CommitStep ==
    /\ pc = "commit"
    /\ LET i == todo[idx]
           r == repos[i]
       IN
       IF auto_commit /\ HasChanges(r, status)
       THEN \E addOk \in BOOLEAN, commitOk \in BOOLEAN :
              LET c == commit_changes(i, r, dry_run, addOk, commitOk) IN
              IF c.ok
              THEN /\ result' = [result EXCEPT !.committed = TRUE]
                   /\ status' = StatusAfterCommit(status, c.repo)
                   /\ repos' = [repos EXCEPT ![i] = AfterFetch(c.repo)]
                   /\ log' = log \o <<Ev(i, "commit_changes")>> \o c.ev
                                 \o FetchEvents(i, c.repo)
              ELSE /\ result' = RecordError(result, ErrCommit)
                   /\ status' = status
                   /\ repos' = [repos EXCEPT ![i] = c.repo]
                   /\ log' = log \o <<Ev(i, "commit_changes")>> \o c.ev
       ELSE UNCHANGED <<result, status, repos, log>>
    /\ pc' = "pull"
    /\ UNCHANGED <<agents, auto_commit, dry_run, ensure_agents_repo, repo_name,
                   todo, idx, first_status, results, ret>>
    /\ UNCHANGED <<exit_code, fs, located>>
    /\ UNCHANGED <<collections, combined, cidx>>

\* Faulty variant: the pull is attempted whatever the behind count.
ShouldPull_always(st) == st.behind >= 0

\* if behind > 0
ShouldPull(st) == st.behind > 0

\* update_repository, lines 802-813: the pull step.
PullStep ==
    /\ pc = "pull"
    /\ LET i == todo[idx]
           r == repos[i]
       IN
       IF ShouldPull(status)
       THEN \E out \in PullOutcomes :
              LET p == pull_repository(i, r, dry_run, out) IN
              /\ result' = IF p.ok THEN [result EXCEPT !.pulled = TRUE]
                           ELSE RecordError(result, ErrPull)
              /\ repos' = [repos EXCEPT ![i] = p.repo]
              /\ log' = log \o <<Ev(i, "pull_repository")>> \o p.ev
       ELSE UNCHANGED <<result, repos, log>>
    /\ pc' = "push"
    /\ UNCHANGED <<agents, auto_commit, dry_run, ensure_agents_repo, repo_name,
                   todo, idx, status, first_status, results, ret>>
    /\ UNCHANGED <<exit_code, fs, located>>
    /\ UNCHANGED <<collections, combined, cidx>>

\* if ahead > 0
ShouldPush(st) == st.ahead > 0

\* update_repository, lines 815-826: the push step.
PushStep ==
    /\ pc = "push"
    /\ LET i == todo[idx]
           r == repos[i]
       IN
       IF ShouldPush(status)
       THEN \E pushOk \in BOOLEAN :
              LET p == push_repository(i, r, dry_run, pushOk) IN
              /\ result' = IF p.ok THEN [result EXCEPT !.pushed = TRUE]
                           ELSE RecordError(result, ErrPush)
              /\ repos' = [repos EXCEPT ![i] = p.repo]
              /\ log' = log \o <<Ev(i, "push_repository")>> \o p.ev
       ELSE UNCHANGED <<result, repos, log>>
    /\ pc' = "finish"
    /\ UNCHANGED <<agents, auto_commit, dry_run, ensure_agents_repo, repo_name,
                   todo, idx, status, first_status, results, ret>>
    /\ UNCHANGED <<exit_code, fs, located>>
    /\ UNCHANGED <<collections, combined, cidx>>

\* Faulty variant: success requires an empty error list.
Success_noerrors(res) == res.errors = <<>>

\* Faulty variant: every repository that reaches the end is successful.
Success_always(res) == TRUE

\* Faulty variant: success needs a pull or a push.
Success_transfer(res) == res.pulled \/ res.pushed

\* if not result["errors"] or (result["pulled"] or result["pushed"])
Success(res) == res.errors = <<>> \/ res.pulled \/ res.pushed

\* update_repository, lines 833-837: success is decided, the result returned.
Finish ==
    /\ pc = "finish"
    /\ result' = IF Success(result) THEN [result EXCEPT !.success = TRUE] ELSE result
    /\ pc' = "append"
    /\ UNCHANGED <<repos, agents, auto_commit, dry_run, ensure_agents_repo,
                   repo_name, todo, idx, status, first_status, results, log, ret>>
    /\ UNCHANGED <<exit_code, fs, located>>
    /\ UNCHANGED <<collections, combined, cidx>>

\* ------------------------------------------------------------ run, the loop
\* The entry run's except clause appends for a repository that raised.
ExceptionEntry(name, msg) == [name |-> name, success |-> FALSE, errors |-> <<msg>>]

\* run, lines 948-963: the returned result joins results, the loop goes on.
AppendResult ==
    /\ pc = "append"
    /\ results' = Append(results, result)
    /\ IF idx < Len(todo)
       THEN idx' = idx + 1 /\ pc' = "inspect"
       ELSE idx' = idx /\ pc' = "summary"
    /\ UNCHANGED <<repos, agents, auto_commit, dry_run, ensure_agents_repo,
                   repo_name, todo, status, first_status, result, log, ret>>
    /\ UNCHANGED <<exit_code, fs, located>>
    /\ UNCHANGED <<collections, combined, cidx>>

\* run, lines 964-970: update_repository raised (repo_path.exists() raises for
\* a path whose stat is denied); the except clause records the repository.
UpdateRaises ==
    /\ pc = "inspect"
    /\ repos[todo[idx]].dir = "denied"
    /\ results' = Append(results, ExceptionEntry(repos[todo[idx]].name, ErrUnexpected))
    /\ IF idx < Len(todo)
       THEN idx' = idx + 1 /\ pc' = "inspect"
       ELSE idx' = idx /\ pc' = "summary"
    /\ UNCHANGED <<repos, agents, auto_commit, dry_run, ensure_agents_repo,
                   repo_name, todo, status, first_status, result, log, ret>>
    /\ UNCHANGED <<exit_code, fs, located>>
    /\ UNCHANGED <<collections, combined, cidx>>

\* Faulty variant: one successful repository makes the whole run successful.
Successful_any(rs) == IF \E k \in 1..Len(rs) : rs[k].success THEN Len(rs) ELSE 0

\* sum(1 for r in results if r["success"])
Successful(rs) == Cardinality({k \in 1..Len(rs) : rs[k].success})

\* r["has_conflicts"] raises KeyError for an entry that lacks the key.
SummaryRaises(rs) == \E k \in 1..Len(rs) : "has_conflicts" \notin DOMAIN rs[k]

\* run, lines 972-982: the summary and the returned value.
Summary ==
    /\ pc = "summary"
    /\ IF SummaryRaises(results)
       THEN pc' = "raised" /\ ret' = "KeyError"
       ELSE /\ pc' = "done"
            /\ ret' = IF Successful(results) = Len(results) THEN "true" ELSE "false"
    /\ UNCHANGED <<repos, agents, auto_commit, dry_run, ensure_agents_repo,
                   repo_name, todo, idx, status, first_status, result, results, log>>
    /\ UNCHANGED <<exit_code, fs, located>>
    /\ UNCHANGED <<collections, combined, cidx>>

\* ------------------------------------------------------------------- main
\* main, lines 1014-1022: sys.exit(0 if success else 1); an exception that
\* leaves run is not caught, and the interpreter then exits with status 1.
Main ==
    /\ pc \in {"done", "raised"}
    /\ exit_code' = IF ret = "true" THEN 0 ELSE 1
    /\ pc' = "exited"
    /\ UNCHANGED <<repos, agents, auto_commit, dry_run, ensure_agents_repo,
                   repo_name, todo, idx, status, first_status, result, results,
                   log, ret, fs, located>>
    /\ UNCHANGED <<collections, combined, cidx>>

\* ----------------------------------------------- merge_postman_collections
\* A collection file (update_documentation_agent.py): service is the name of
\* its parent directory, item the value of its "item" field, desc whether
\* info has a description, and kind what the file holds:
\*   "ok"              a JSON object with "item" and an object-valued "info"
\*   "malformed"       no JSON
\*   "no_info"         a JSON object without "info"
\*   "no_item"         a JSON object with "info" and without "item"
\*   "info_not_object" "info" and "item" are there, "info" is no object
\*                     (null, a string, a list), so info.get raises
\*   "unreadable"      open() raises
CollectionKinds ==
    {"ok", "malformed", "no_info", "no_item", "info_not_object", "unreadable"}

\* Faulty variant: a collection without "item" passes the validation.
validate_postman_collection_lenient(c) == c.kind \in {"ok", "info_not_object", "no_item"}

\* validate_postman_collection, lines 51-82.
validate_postman_collection(c) == c.kind \in {"ok", "info_not_object"}

\* The description of a service item (line 118).
Description(c) == IF c.desc THEN <<"description", c.service>> ELSE <<"Endpoints de", c.service>>

\* service_item of merge_postman_collections, lines 115-120.
ServiceItem(c) == [name |-> c.service, description |-> Description(c), item |-> c.item]

\* One turn of the loop of merge_postman_collections, lines 106-126: what
\* the collection adds to combined["item"].
Contribution(c) ==
    IF ~validate_postman_collection(c) THEN <<>>
    ELSE IF c.kind = "info_not_object" THEN <<>>
    ELSE <<ServiceItem(c)>>

MergeStep ==
    /\ pc = "m_loop"
    /\ cidx <= Len(collections)
    /\ combined' = combined \o Contribution(collections[cidx])
    /\ cidx' = cidx + 1
    /\ UNCHANGED <<repos, agents, auto_commit, dry_run, ensure_agents_repo,
                   repo_name, pc, todo, idx, status, first_status, result,
                   results, log, ret, exit_code, fs, located, collections>>

\* return combined (line 128)
MergeReturn ==
    /\ pc = "m_loop"
    /\ cidx > Len(collections)
    /\ pc' = "m_return"
    /\ UNCHANGED <<repos, agents, auto_commit, dry_run, ensure_agents_repo,
                   repo_name, todo, idx, status, first_status, result,
                   results, log, ret, exit_code, fs, located, collections,
                   combined, cidx>>

\* ------------------------------------------------------------ initial states
\* merge_postman_collections is not running.
NoMerge == collections = <<>> /\ combined = <<>> /\ cidx = 0

CleanRepo(n) ==
    [name |-> n, dir |-> "present", git |-> TRUE, unstaged |-> FALSE,
     staged |-> FALSE, untracked |-> 0, marker |-> FALSE, reverts |-> FALSE,
     remote |-> TRUE, ahead |-> 0, behind |-> 0, remoteNew |-> 0, faults |-> {}]

\* Every state of one Git repository, within the bounds.
RepoStates ==
    { r \in [name : {"svc-a"}, dir : {"present"}, git : {TRUE},
             unstaged : BOOLEAN, staged : BOOLEAN, untracked : 0..MaxUntracked,
             marker : BOOLEAN, reverts : BOOLEAN, remote : BOOLEAN,
             ahead : 0..MaxAhead, behind : 0..MaxBehind, remoteNew : 0..1,
             faults : SUBSET QueryFaults] :
        /\ r.marker => r.unstaged
        /\ r.reverts => (r.staged /\ r.unstaged /\ ~r.marker)
        /\ ~r.remote => /\ r.ahead = 0 /\ r.behind = 0 /\ r.remoteNew = 0
                        /\ r.faults \cap {"fetch", "rev_list", "rev_list_behind"} = {} }

\* Paths that are no usable repository: missing, not a repository, denied.
BrokenRepos(n) ==
    { [CleanRepo(n) EXCEPT !.dir = "missing"],
      [CleanRepo(n) EXCEPT !.git = FALSE],
      [CleanRepo(n) EXCEPT !.dir = "denied"] }

\* The repositories of a batch: one to push, one to pull, one in conflict,
\* and the broken ones.
BatchRepos(n) ==
    { [CleanRepo(n) EXCEPT !.ahead = 1],
      [CleanRepo(n) EXCEPT !.unstaged = TRUE, !.marker = TRUE],
      [CleanRepo(n) EXCEPT !.dir = "missing"],
      [CleanRepo(n) EXCEPT !.dir = "denied"] }

BatchName(i) == IF i % 2 = 1 THEN "svc-a" ELSE "svc-b"

DefaultAgents == [gitDir |-> TRUE, origin |-> "match", client |-> FALSE]

AgentsStates ==
    { a \in [gitDir : BOOLEAN, origin : {"none", "match", "other"}, client : BOOLEAN] :
        ~a.gitDir => a.origin = "none" }

InitControl ==
    /\ pc = "ensure"
    /\ todo = <<>>
    /\ idx = 0
    /\ status = NoStatus
    /\ first_status = NoStatus
    /\ result = NewResult("")
    /\ results = <<>>
    /\ log = <<>>
    /\ ret = "none"
    /\ exit_code = -1
    /\ NoMerge

\* One repository in any state, reconciled on its own.
InitSingle ==
    /\ \E r \in RepoStates \cup BrokenRepos("svc-a") : repos = <<r>>
    /\ agents = DefaultAgents
    /\ ensure_agents_repo = FALSE
    /\ repo_name = "none"

\* A batch of up to MaxRepos repositories, with or without a name filter.
InitBatch ==
    /\ \E n \in 0..MaxRepos :
         repos \in { f \in [1..n -> UNION {BatchRepos(BatchName(k)) : k \in 1..n}] :
                       \A k \in 1..n : f[k].name = BatchName(k) }
    /\ agents = DefaultAgents
    /\ ensure_agents_repo = FALSE
    /\ repo_name \in {"none", "svc-a", "svc-x"}

\* The agents directory in any state, ahead of a one-repository batch.
InitEnsure ==
    /\ repos = <<[CleanRepo("svc-a") EXCEPT !.ahead = 1]>>
    /\ agents \in AgentsStates
    /\ ensure_agents_repo = TRUE
    /\ repo_name = "none"

\* The specification of run takes the list get_repositories_list returns as
\* given (repos); the locator has its own specification, SpecLocator.
Init ==
    /\ auto_commit \in BOOLEAN
    /\ dry_run \in BOOLEAN
    /\ InitControl
    /\ fs = NoFs
    /\ located = <<>>
    /\ (InitSingle \/ InitBatch \/ InitEnsure)

Next ==
    \/ EnsureAgentsRepo
    \/ Locate
    \/ Inspect
    \/ UpdateRaises
    \/ CommitStep
    \/ PullStep
    \/ PushStep
    \/ Finish
    \/ AppendResult
    \/ Summary
    \/ Main

Spec == Init /\ [][Next]_vars

\* ------------------------------------------------- get_repositories_list
MaxListed == 2

DirStates ==
    { d \in [git : BOOLEAN, opens : BOOLEAN, url : {"none", "own", "other"}] :
        /\ d.opens => d.git
        /\ d.url # "none" => d.opens }

\* The organization listing: a failure, or the names it returns.
OrgStates ==
    { [ok |-> FALSE, names |-> <<>>], [ok |-> TRUE, names |-> <<>>],
      [ok |-> TRUE, names |-> <<"svc-a">>], [ok |-> TRUE, names |-> <<"svc-b", "svc-a">>] }

\* Every configuration and disk within the bounds: no configuration, or a
\* list of up to MaxListed names with a mapping of names to paths.
FsStates ==
    { f \in [file : {"absent", "malformed", "valid"},
             config : BOOLEAN,
             repositories : UNION {[1..n -> Names] : n \in 0..MaxListed},
             local_paths : [Names -> {"none", "services/svc-a", AgentsPath, "elsewhere"}],
             dirs : [Range(Scanned) -> DirStates],
             client : BOOLEAN,
             org : OrgStates] :
        /\ f.config => f.file = "valid"
        /\ ~f.config => (f.repositories = <<>> /\ f.local_paths = NoFs.local_paths)
        /\ ~f.client => f.org = NoFs.org }

InitLocator ==
    /\ fs \in FsStates
    /\ located = <<>>
    /\ pc = "l_init"
    /\ repos = <<>>
    /\ agents = DefaultAgents
    /\ auto_commit = FALSE
    /\ dry_run = FALSE
    /\ ensure_agents_repo = FALSE
    /\ repo_name = "none"
    /\ todo = <<>>
    /\ idx = 0
    /\ status = NoStatus
    /\ first_status = NoStatus
    /\ result = NewResult("")
    /\ results = <<>>
    /\ log = <<>>
    /\ ret = "none"
    /\ exit_code = -1
    /\ NoMerge

NextLocator ==
    \/ LoadConfig
    \/ LocateFromConfig
    \/ LocateDetect
    \/ LocateAgents
    \/ LocateFromApi

SpecLocator == InitLocator /\ [][NextLocator]_vars

\* ----------------------------------------------- merge_postman_collections
MaxCollections == 3

ServiceOf(k) == IF k % 2 = 1 THEN "svc-a" ELSE "svc-b"

\* The files a collection path can hold; item and desc matter only where
\* the file has them.
CollectionFiles(k) ==
    { c \in [service : {ServiceOf(k)}, kind : CollectionKinds,
             item : {<<>>, <<"GET /a">>}, desc : BOOLEAN] :
        /\ c.kind \in {"malformed", "unreadable", "no_item"} => c.item = <<>>
        /\ c.kind # "ok" => ~c.desc }

InitMerge ==
    /\ \E n \in 0..MaxCollections :
         collections \in { f \in [1..n -> UNION {CollectionFiles(k) : k \in 1..n}] :
                             \A k \in 1..n : f[k].service = ServiceOf(k) }
    /\ combined = <<>>
    /\ cidx = 1
    /\ pc = "m_loop"
    /\ repos = <<>>
    /\ agents = DefaultAgents
    /\ auto_commit = FALSE
    /\ dry_run = FALSE
    /\ ensure_agents_repo = FALSE
    /\ repo_name = "none"
    /\ todo = <<>>
    /\ idx = 0
    /\ status = NoStatus
    /\ first_status = NoStatus
    /\ result = NewResult("")
    /\ results = <<>>
    /\ log = <<>>
    /\ ret = "none"
    /\ exit_code = -1
    /\ fs = NoFs
    /\ located = <<>>

NextMerge ==
    \/ MergeStep
    \/ MergeReturn

SpecMerge == InitMerge /\ [][NextMerge]_vars

\* ---------------------------------------- update_repository, called twice
\* update_repository(repo_info, auto_commit, dry_run=True) called twice in
\* succession on the same repository, the caller collecting both results.
InitDryRunTwice ==
    /\ auto_commit \in BOOLEAN
    /\ dry_run = TRUE
    /\ \E r \in RepoStates \cup BrokenRepos("svc-a") : repos = <<r>>
    /\ agents = DefaultAgents
    /\ ensure_agents_repo = FALSE
    /\ repo_name = "none"
    /\ pc = "inspect"
    /\ todo = <<1, 1>>
    /\ idx = 1
    /\ status = NoStatus
    /\ first_status = NoStatus
    /\ result = NewResult("")
    /\ results = <<>>
    /\ log = <<>>
    /\ ret = "none"
    /\ exit_code = -1
    /\ fs = NoFs
    /\ located = <<>>
    /\ NoMerge

NextDryRunTwice ==
    \/ Inspect
    \/ UpdateRaises
    \/ CommitStep
    \/ PullStep
    \/ PushStep
    \/ Finish
    \/ AppendResult

SpecDryRunTwice == InitDryRunTwice /\ [][NextDryRunTwice]_vars

\* ------------------------------- update_repository, previewed and then run
\* update_repository(repo_info, auto_commit, dry_run=True) on one repository,
\* then update_repository(repo_info, auto_commit, dry_run=False) on the same
\* repository, the caller collecting both results.
InitPreview ==
    /\ auto_commit \in BOOLEAN
    /\ dry_run = TRUE
    /\ \E r \in RepoStates : repos = <<r>>
    /\ agents = DefaultAgents
    /\ ensure_agents_repo = FALSE
    /\ repo_name = "none"
    /\ pc = "inspect"
    /\ todo = <<1>>
    /\ idx = 1
    /\ status = NoStatus
    /\ first_status = NoStatus
    /\ result = NewResult("")
    /\ results = <<>>
    /\ log = <<>>
    /\ ret = "none"
    /\ exit_code = -1
    /\ fs = NoFs
    /\ located = <<>>
    /\ NoMerge

\* The second call: the same repository and auto_commit, dry_run = False.
RunForReal ==
    /\ pc = "summary"
    /\ dry_run
    /\ dry_run' = FALSE
    /\ pc' = "inspect"
    /\ UNCHANGED <<repos, agents, auto_commit, ensure_agents_repo, repo_name,
                   todo, idx, status, first_status, result, results, log, ret>>
    /\ UNCHANGED <<exit_code, fs, located>>
    /\ UNCHANGED <<collections, combined, cidx>>

NextPreview ==
    \/ Inspect
    \/ CommitStep
    \/ PullStep
    \/ PushStep
    \/ Finish
    \/ AppendResult
    \/ RunForReal

SpecPreview == InitPreview /\ [][NextPreview]_vars

\* ================================================================ claims

\* The repository update_repository is working on, and its index.
CurIdx == todo[idx]
CurRepo == repos[todo[idx]]

\* Some operation among names was invoked on repository i.
Invoked(lg, i, names) == \E k \in 1..Len(lg) : lg[k].repo = i /\ lg[k].ev \in names

StepCalls == {"commit_changes", "pull_repository", "push_repository"}
GitWrites == {"git_add", "git_commit", "git_pull", "git_push"}
Mutating == GitWrites \cup {"git_init", "gh_create", "api_create",
                            "create_remote", "set_url"}

\* What a repository holds locally: everything but the remote-tracking state
\* that the fetch of an inspection refreshes.
Local(r) == [unstaged |-> r.unstaged, staged |-> r.staged, untracked |-> r.untracked,
             marker |-> r.marker, ahead |-> r.ahead, git |-> r.git, dir |-> r.dir]

\* C1: a repository whose inspection reports has_conflicts is returned with
\* success = false, has_conflicts = true and the conflict error, and none of
\* commit_changes, pull_repository, push_repository was invoked on it,
\* whatever auto_commit and dry_run are.
C1_ConflictBlocks ==
    (pc = "append" /\ first_status.valid /\ first_status.has_conflicts)
    => /\ ~result.success
       /\ result.has_conflicts
       /\ ErrConflicts \in Range(result.errors)
       /\ ~result.committed /\ ~result.pulled /\ ~result.pushed
       /\ ~Invoked(log, CurIdx, StepCalls \cup GitWrites)

C1_Witness ==
    /\ pc = "append"
    /\ first_status.valid /\ first_status.has_conflicts
    /\ first_status.ahead > 0 /\ first_status.behind > 0
    /\ auto_commit /\ ~dry_run
    /\ result.has_conflicts

\* The positions of the batch whose update_repository raises.
RaisingRepos == {k \in 1..Len(todo) : repos[todo[k]].dir = "denied"}

\* C2: when update_repository raises for exactly one repository k of a
\* batch of several and every other one reconciles successfully, run ends with one
\* result per repository, only repository k unsuccessful, and its summary
\* (a returned boolean) computed over those results.
C2_OneFailureIsIsolated ==
    (/\ pc \in {"done", "raised"}
     /\ Len(todo) > 1
     /\ Cardinality(RaisingRepos) = 1
     /\ \A k \in 1..Len(results) : k \notin RaisingRepos => results[k].success)
    => /\ pc = "done"
       /\ ret \in {"true", "false"}
       /\ Len(results) = Len(todo)
       /\ \A k \in 1..Len(results) : results[k].success <=> k \notin RaisingRepos

\* C3: once run has a non-empty list of repositories to process, no
\* exception propagates out of it: it reaches its summary and returns a
\* boolean, whichever repositories raise.
C3_RunNeverRaises ==
    Len(todo) > 0 => (pc # "raised" /\ (pc = "done" => ret \in {"true", "false"}))

\* The working tree is dirty in the sense of the glossary: uncommitted
\* modifications and/or untracked files.
Dirty(r) == r.staged \/ r.unstaged \/ r.untracked > 0

CommitFailed(res) == ErrCommit \in Range(res.errors)

\* C4 as stated: with behind > 0 and a dirty working tree (modifications
\* and/or untracked files), and auto_commit false or the commit step failed,
\* the pull step executes no pull and leaves pulled = false, for both values
\* of dry_run.
C4_PullRefusedWhenDirty ==
    [][(/\ pc = "pull"
        /\ status.behind > 0
        /\ Dirty(CurRepo)
        /\ (~auto_commit \/ CommitFailed(result)))
       => (/\ ~result'.pulled
           /\ ~Invoked(log', CurIdx, {"git_pull"}))]_vars

\* C4 amended: with behind > 0 and uncommitted modifications of tracked files
\* (staged or not; untracked files alone do not count), and auto_commit false
\* or the commit step failed, the pull operation is never executed; with
\* dry_run = false pulled stays false and the pull error is recorded, with
\* dry_run = true the step reports pulled = true.
C4_PullRefusedWhenTrackedDirty ==
    [][(/\ pc = "pull"
        /\ status.behind > 0
        /\ (CurRepo.staged \/ CurRepo.unstaged)
        /\ (~auto_commit \/ CommitFailed(result)))
       => (/\ ~Invoked(log', CurIdx, {"git_pull"})
           /\ Local(repos'[CurIdx]) = Local(CurRepo)
           /\ ~dry_run => (/\ ~result'.pulled
                           /\ result'.errors = Append(result.errors, ErrPull))
           /\ dry_run => (result'.pulled /\ result'.errors = result.errors))]_vars

C4_Witness ==
    /\ pc = "push"
    /\ ~dry_run /\ ~auto_commit
    /\ status.behind > 0
    /\ CurRepo.unstaged
    /\ ~result.pulled
    /\ ErrPull \in Range(result.errors)
    /\ Invoked(log, CurIdx, {"pull_repository"})
    /\ ~Invoked(log, CurIdx, {"git_pull"})

\* C5: with dry_run = true no step of run or update_repository stages,
\* commits, pulls, pushes, initialises a repository, creates a remote
\* repository or changes a configured remote; the local state of every
\* repository and the agents directory stay as they were.
C5_DryRunMutatesNothing ==
    [][dry_run => (/\ \A k \in 1..Len(log') : log'[k].ev \notin Mutating
                   /\ agents' = agents
                   /\ \A i \in 1..Len(repos) : Local(repos'[i]) = Local(repos[i]))]_vars

C5_Witness ==
    /\ dry_run
    /\ pc = "append"
    /\ result.committed /\ result.pulled /\ result.pushed
    /\ Dirty(CurRepo)
    /\ \A k \in 1..Len(log) : log[k].ev \notin Mutating

\* C6: a repository whose inspected behind count is 0 is never pulled, and
\* one whose ahead count is 0 in the status held after the commit step is
\* never pushed.
C6_NoPullNoPushAtZero ==
    /\ (pc \in {"push", "finish", "append"}
        /\ (status.behind = 0 \/ first_status.behind = 0))
       => ~Invoked(log, CurIdx, {"pull_repository", "git_pull"})
    /\ (pc \in {"finish", "append"} /\ status.ahead = 0)
       => ~Invoked(log, CurIdx, {"push_repository", "git_push"})

C6_Witness ==
    /\ pc = "append"
    /\ status.valid /\ status.behind = 0 /\ status.ahead = 0
    /\ result.committed /\ ~dry_run
    /\ CurRepo.ahead > 0
    /\ result.success

\* C7: in every result update_repository returns, success is true exactly
\* when errors is empty or one of pulled / pushed is true.
C7_SuccessRule ==
    pc = "append"
    => (result.success <=> (result.errors = <<>> \/ result.pulled \/ result.pushed))

C7_Witness ==
    /\ pc = "append"
    /\ ErrPull \in Range(result.errors)
    /\ result.pushed
    /\ result.success

\* C8: a failed commit, pull or push step appends its error and the next
\* step is still evaluated; the flags and errors earlier steps set are kept
\* up to the returned result, which run appends to its results.
C8_FailuresDoNotStop ==
    [][/\ pc = "commit"
          => /\ pc' = "pull"
             /\ (Invoked(log', CurIdx, {"commit_changes"}) /\ ~result'.committed)
                => result'.errors = Append(result.errors, ErrCommit)
       /\ pc = "pull"
          => /\ pc' = "push"
             /\ result'.committed = result.committed
             /\ (status.behind > 0 /\ ~result'.pulled)
                => result'.errors = Append(result.errors, ErrPull)
             /\ ~(status.behind > 0 /\ ~result'.pulled)
                => result'.errors = result.errors
       /\ pc = "push"
          => /\ pc' = "finish"
             /\ result'.committed = result.committed
             /\ result'.pulled = result.pulled
             /\ (status.ahead > 0 /\ ~result'.pushed)
                => result'.errors = Append(result.errors, ErrPush)
             /\ ~(status.ahead > 0 /\ ~result'.pushed)
                => result'.errors = result.errors
       /\ pc = "finish"
          => /\ pc' = "append"
             /\ result'.committed = result.committed
             /\ result'.pulled = result.pulled
             /\ result'.pushed = result.pushed
             /\ result'.errors = result.errors
       /\ pc = "append"
          => results' = Append(results, result)]_vars

C8_Witness ==
    /\ pc = "append"
    /\ ~dry_run
    /\ result.committed
    /\ Invoked(log, CurIdx, {"git_commit"})
    /\ result.errors = <<ErrPull, ErrPush>>
    /\ Invoked(log, CurIdx, {"git_push"})

\* An error entry that tells of uncommitted local changes.
LocalChangesIndication(e) == e = WarnLocalChanges

\* C9 as stated: a repository inspected with is_dirty = true and behind = 3
\* (and, as in every scenario, no conflict), reconciled with
\* auto_commit = false, is not pulled, has an indication of local changes in
\* errors, and success = false.
C9_DirtyBehindScenario ==
    (/\ pc = "append"
     /\ first_status.valid /\ first_status.is_dirty /\ first_status.behind = 3
     /\ ~first_status.has_conflicts
     /\ ~auto_commit)
    => /\ ~result.pulled
       /\ ~Invoked(log, CurIdx, {"git_pull"})
       /\ \E e \in Range(result.errors) : LocalChangesIndication(e)
       /\ ~result.success

\* C9 amended: such a repository, with no conflict reported and
\* dry_run = false, is not pulled; errors holds the generic pull error (the
\* local-changes reason is only logged); success is false unless the push
\* step completed, so it is false when ahead = 0.
C9_DirtyBehindRefused ==
    (/\ pc = "append"
     /\ first_status.valid /\ first_status.is_dirty /\ first_status.behind = 3
     /\ ~first_status.has_conflicts
     /\ ~auto_commit /\ ~dry_run)
    => /\ ~result.pulled
       /\ ~Invoked(log, CurIdx, {"git_pull"})
       /\ ErrPull \in Range(result.errors)
       /\ \A e \in Range(result.errors) : ~LocalChangesIndication(e)
       /\ result.success <=> result.pushed
       /\ first_status.ahead = 0 => ~result.success

C9_Witness ==
    /\ pc = "append"
    /\ first_status.valid /\ first_status.is_dirty /\ first_status.behind = 3
    /\ first_status.ahead = 0
    /\ ~auto_commit /\ ~dry_run
    /\ result.errors = <<ErrPull>>
    /\ ~result.success

\* Nothing to commit: no modified and no untracked file.  A change that is
\* already staged counts as nothing to commit only while the queries of
\* commit_changes work, as its check reads index.diff(None) and untracked_files.
NothingToCommit(r) ==
    /\ ~r.unstaged
    /\ r.untracked = 0
    /\ r.staged => r.faults \cap {"diff", "status"} = {}

C11_DryRunTwiceSame ==
    [][dry_run => (/\ get_repo_status(repos'[1]) = get_repo_status(repos[1])
                   /\ Len(results') = 2 => results'[1] = results'[2])]_vars

C11_Witness ==
    /\ dry_run /\ auto_commit
    /\ todo = <<1, 1>>
    /\ pc = "summary"
    /\ Len(results) = 2
    /\ repos[1].dir = "present"
    /\ results[1] = results[2]
    /\ results[1].committed /\ results[1].pulled /\ results[1].pushed
    /\ Dirty(repos[1])
    /\ repos[1].behind > 0

\* C12: a run that processed repositories returns true exactly when every
\* result has success = true (a run that raises returns nothing), and the
\* process exits with status 0 when run returned true and with 1 otherwise.
C12_ReturnAndExit ==
    /\ (pc \in {"done", "raised", "exited"} /\ results # <<>>)
       => (ret = "true" <=> \A k \in 1..Len(results) : results[k].success)
    /\ pc = "exited"
       => /\ exit_code \in {0, 1}
          /\ exit_code = 0 <=> ret = "true"

C12_Witness ==
    /\ pc = "exited"
    /\ exit_code = 1
    /\ ret = "false"
    /\ Len(results) = 3
    /\ results[1].success /\ ~results[2].success /\ results[3].success

\* A selector was given and no located repository has that name.
NoMatch == repo_name # "none" /\ \A i \in 1..Len(repos) : repos[i].name # repo_name

\* run returned failure without invoking update_repository on any repository.
FailedFast == pc \in {"done", "exited"} /\ ret = "false" /\ results = <<>>

\* The located repositories that pass the filter.
Passing == {i \in 1..Len(repos) : repo_name = "none" \/ repos[i].name = repo_name}

\* update_repository was invoked once for each repository that passes the
\* filter, in the order of the list.
InvokedOncePerPassing ==
    /\ Len(results) = Cardinality(Passing)
    /\ Len(todo) = Len(results)
    /\ Range(todo) = Passing
    /\ \A k \in 1..Len(todo) : results[k].name = repos[todo[k]].name
    /\ \A k \in 1..(Len(todo) - 1) : todo[k] < todo[k + 1]

\* C13 as stated: run fails fast only if a selector was given and no located
\* repository has that name; in every other case update_repository is
\* invoked once for each located repository that passes the filter.
C13_FailFastOnlyOnNoMatch ==
    /\ FailedFast => NoMatch
    /\ pc = "summary" => InvokedOncePerPassing

\* C13 amended: run returns failure without invoking update_repository
\* exactly when no repository was located, or a selector was given and no
\* located repository has that name; otherwise, once the repositories are
\* resolved, update_repository is invoked once for each located repository
\* that passes the filter, in list order.
C13_FailFastOnEmptyOrNoMatch ==
    /\ FailedFast => (repos = <<>> \/ NoMatch)
    /\ (pc \in {"inspect", "commit", "pull", "push", "finish", "append", "summary"})
       => ~(repos = <<>> \/ NoMatch)
    /\ (pc = "done" /\ (repos = <<>> \/ NoMatch)) => FailedFast
    /\ pc = "summary" => InvokedOncePerPassing

C13_Witness ==
    /\ pc = "summary"
    /\ repo_name = "svc-a"
    /\ Len(repos) = 3
    /\ Len(results) = 2
    /\ todo = <<1, 3>>

\* C14: ensuring the agents repository is best-effort: whatever fails inside
\* ensure_agents_repo_exists (initialisation failing or skipped, the
\* directory not being a repository, the CLI and the API both failing), no
\* exception leaves it, and run goes on to resolve the repositories and to
\* process the whole batch.
C14_EnsureIsBestEffort ==
    (ensure_agents_repo /\ pc \in {"done", "raised"})
    => /\ pc = "done"
       /\ Len(results) = Len(repos)

\* The list step 1 derives from the configuration.
ConfigDerived == FromConfig(fs, 1)

\* A local directory with version-control metadata that the scan of step 2
\* would add.
Detectable(p) == fs.dirs[p].git /\ fs.dirs[p].opens /\ fs.dirs[p].url # "none"

\* C15 as stated: when the configuration resolves at least one repository
\* and local directories hold version-control metadata, the returned list is
\* the configuration-derived one and every entry names a repository listed
\* in the configuration.
C15_ConfigExclusive ==
    (/\ pc = "l_return"
     /\ ConfigDerived # <<>>
     /\ \E p \in Range(Scanned) : fs.dirs[p].git)
    => /\ located = ConfigDerived
       /\ \A r \in Range(located) : r.name \in Range(fs.repositories)

\* C15 amended: in that case the returned list is the configuration-derived
\* one, followed by the agents repository when its directory holds
\* version-control metadata, opens as a repository and is not the path of a
\* configured entry; no directory found by the local scan and no repository
\* listed remotely is added.
C15_ConfigThenAgents ==
    (/\ pc = "l_return"
     /\ ConfigDerived # <<>>
     /\ \E p \in Range(Scanned) : fs.dirs[p].git)
    => /\ located \in {ConfigDerived, Append(ConfigDerived, Ref(AgentsName, AgentsPath)),
                        Append(ConfigDerived, Ref(OtherName(AgentsPath), AgentsPath))}
       /\ located # ConfigDerived
          <=> /\ fs.dirs[AgentsPath].git /\ fs.dirs[AgentsPath].opens
              /\ \A r \in Range(ConfigDerived) : r.local_path # AgentsPath
       /\ \A r \in Range(located) :
            r.local_path # AgentsPath => r \in Range(ConfigDerived)

C15_Witness ==
    /\ pc = "l_return"
    /\ fs.repositories = <<"svc-a">>
    /\ fs.local_paths["svc-a"] = "none"
    /\ Detectable("services/svc-a")
    /\ Detectable("services/svc-b")
    /\ ~fs.dirs[AgentsPath].git
    /\ fs.client /\ fs.org.ok /\ Len(fs.org.names) = 2
    /\ located = <<Ref("svc-a", "services/svc-a")>>

\* C16: the list get_repositories_list returns never holds two entries with
\* the same local_path, whatever the configuration and the directories.
C16_UniqueLocalPath ==
    pc = "l_return"
    => \A j, k \in 1..Len(located) :
         j # k => located[j].local_path # located[k].local_path

\* The path holds a readable Git repository.
Readable(r) == r.dir = "present" /\ r.git

\* C17: get_repo_status always returns a status: valid = false with an error
\* message for a path that is missing, unreadable or no repository, and
\* valid = true for a repository whichever of the later queries (dirty
\* state, fetch, ahead / behind, conflicts) raise.
C17_StatusAlwaysReturned ==
    /\ \A i \in 1..Len(repos) :
         LET s == get_repo_status(repos[i]) IN
         /\ s.valid \in BOOLEAN
         /\ s.valid <=> Readable(repos[i])
         /\ ~s.valid => s.error # ""
    /\ pc \in {"commit", "pull", "push", "finish"}
       => (Readable(CurRepo) /\ first_status.valid /\ status.valid)

C17_Witness ==
    /\ pc = "commit"
    /\ Readable(CurRepo)
    /\ CurRepo.faults = QueryFaults
    /\ Dirty(CurRepo) /\ CurRepo.ahead > 0
    /\ first_status = get_repo_status(CurRepo)
    /\ first_status.valid
    /\ ~first_status.is_dirty /\ first_status.ahead = 0

\* What the primary query (is_dirty, untracked_files) and the fallback query
\* (git status --porcelain) of get_repo_status give for a working tree.
PrimaryFlags(r) == DirtyFlags([r EXCEPT !.faults = {}])
FallbackFlags(r) == DirtyFlags([r EXCEPT !.faults = {"diff"}])

\* C18: for every working tree (any combination of modified, staged and
\* untracked files) the is_dirty flag and the untracked count the fallback
\* derives from the porcelain output equal those of the primary query.
C18_FallbackEquivalent ==
    \A i \in 1..Len(repos) :
      Readable(repos[i]) => FallbackFlags(repos[i]) = PrimaryFlags(repos[i])

\* An error occurs while ahead or behind is computed.
RevListFails(r) == r.faults \cap {"rev_list", "rev_list_behind"} # {}

\* C19: in every status with valid = true, ahead and behind are both 0 when
\* the repository has no remote or a computation of either raises, and
\* otherwise both are the computed counts: never one computed and the other
\* left at its default.
C19_AheadBehindTogether ==
    \A i \in 1..Len(repos) :
      LET r == repos[i]
          s == get_repo_status(r)
          f == AfterFetch(r)
      IN s.valid
         => /\ (~r.remote \/ RevListFails(r)) => (s.ahead = 0 /\ s.behind = 0)
            /\ ~(~r.remote \/ RevListFails(r))
               => (s.ahead = f.ahead /\ s.behind = f.behind)

C19_Witness ==
    /\ pc = "commit"
    /\ CurRepo.remote
    /\ CurRepo.ahead > 0 /\ CurRepo.behind > 0
    /\ CurRepo.faults = {"rev_list_behind"}
    /\ first_status.valid
    /\ first_status.ahead = 0 /\ first_status.behind = 0

\* The operations of the CLI and of the token-based API.
GhEvents == {"gh_version", "gh_view", "gh_create"}
ApiEvents == {"api_get", "api_create"}

\* The position of an event in the log, 0 when it is not there.
Pos(lg, name) ==
    IF \E k \in 1..Len(lg) : lg[k].ev = name
    THEN CHOOSE k \in 1..Len(lg) : lg[k].ev = name
    ELSE 0

\* C20: create_github_repo calls the CLI function first; an operation of the
\* token-based API happens only after the CLI function returned None (gh
\* absent or failed) and only with a token client configured; when neither
\* yields a repository it returns None, and no exception leaves it.
C20_CliThenApi ==
    /\ \A k \in 1..Len(log) :
         log[k].ev \in ApiEvents
         => /\ agents.client
            /\ Pos(log, "cli_none") \in 1..(k - 1)
            /\ Pos(log, "cli_info") = 0
    /\ \A k \in 1..Len(log) :
         log[k].ev \in {"create_none", "create_info"}
         => Pos(log, "cli_none") + Pos(log, "cli_info") \in 1..(k - 1)
    /\ Pos(log, "create_none") > 0
       => /\ Pos(log, "cli_none") > 0
          /\ Pos(log, "create_info") = 0
          /\ agents.client => Pos(log, "api_get") > 0
    /\ (Pos(log, "cli_none") > 0 /\ pc # "ensure")
       => Pos(log, "create_none") + Pos(log, "create_info") > 0

C20_Witness ==
    /\ pc = "locate"
    /\ ~dry_run
    /\ agents.client
    /\ Pos(log, "gh_create") > 0
    /\ Pos(log, "cli_none") > Pos(log, "gh_create")
    /\ Pos(log, "api_create") > Pos(log, "cli_none")
    /\ Pos(log, "create_none") > Pos(log, "api_create")

\* The entries due to the first k collections of which Ok(c) holds.
EntriesOf(cs, k, Ok(_)) ==
    LET sel == SelectSeq(SubSeq(cs, 1, k), Ok) IN
    [j \in 1..Len(sel) |-> [name |-> sel[j].service, item |-> sel[j].item]]

\* The service name and the item list of every entry of combined["item"].
Carried(cb) == [k \in 1..Len(cb) |-> [name |-> cb[k].name, item |-> cb[k].item]]

\* Valid as the claim has it: JSON that parses and has info and item.
ValidCollection(c) == c.kind \notin {"malformed", "no_info", "no_item", "unreadable"}

\* Valid and processed: moreover info is a JSON object.
WellFormedCollection(c) == c.kind = "ok"

\* C21 as stated: the combined collection has exactly one entry per valid
\* input collection, in input order, each with the service name and the
\* item list of its collection; an invalid collection (malformed JSON, no
\* info, no item) adds no entry and the merge goes on.
C21_OneEntryPerValid ==
    /\ pc = "m_loop" => Carried(combined) = EntriesOf(collections, cidx - 1, ValidCollection)
    /\ pc = "m_return"
       => Carried(combined) = EntriesOf(collections, Len(collections), ValidCollection)

\* C21 amended: one entry per input collection that is a JSON object with an
\* item field and an object-valued info field, in input order, with its
\* service name and item list; every other collection (rejected by the
\* validation, or accepted by it with an info that is no object) adds no
\* entry and the merge goes on to the end of the list.
C21_OneEntryPerWellFormed ==
    /\ pc = "m_loop"
       => Carried(combined) = EntriesOf(collections, cidx - 1, WellFormedCollection)
    /\ pc = "m_return"
       => /\ cidx = Len(collections) + 1
          /\ Carried(combined)
               = EntriesOf(collections, Len(collections), WellFormedCollection)

C21_Witness ==
    /\ pc = "m_return"
    /\ Len(collections) = 3
    /\ collections[1].kind = "ok" /\ collections[1].item # <<>>
    /\ collections[2].kind = "ok"
    /\ collections[3].kind = "malformed"
    /\ Len(combined) = 2
    /\ combined[1].name = "svc-a" /\ combined[2].name = "svc-b"

\* The error update_repository records for a path it cannot inspect.
InspectionError(r) ==
    IF r.dir = "missing" THEN ErrNoDir ELSE get_repo_status(r).error

\* The directory does not exist, or its inspection returns valid = false.
NotInspectable(r) == r.dir = "missing" \/ (r.dir = "present" /\ ~r.git)

\* C22: a repository whose directory does not exist or whose inspection
\* returns valid = false is reported: its result is in the results of the
\* run with success = false and the error in errors, and no commit, pull or
\* push was invoked on it.
C22_InvalidIsReported ==
    /\ \A k \in 1..Len(results) :
         NotInspectable(repos[todo[k]])
         => /\ ~results[k].success
            /\ results[k].errors = <<InspectionError(repos[todo[k]])>>
            /\ ~results[k].committed /\ ~results[k].pulled /\ ~results[k].pushed
            /\ ~Invoked(log, todo[k], StepCalls \cup GitWrites)
    /\ (pc \in {"commit", "pull", "push", "finish"}) => ~NotInspectable(CurRepo)
    /\ (pc = "summary" /\ todo # <<>>) => Len(results) = Len(todo)

C22_Witness ==
    /\ pc = "summary"
    /\ Len(results) = 3
    /\ repos[todo[2]].dir = "missing"
    /\ results[1].success
    /\ results[2].errors = <<ErrNoDir>>
    /\ results[3].success

\* The step an operation belongs to: 1 commit, 2 pull, 3 push, 0 for the
\* fetch of an inspection and for what is done outside update_repository.
StepOf(e) ==
    IF e \in {"commit_changes", "git_add", "git_commit"} THEN 1
    ELSE IF e \in {"pull_repository", "git_pull"} THEN 2
    ELSE IF e \in {"push_repository", "git_push"} THEN 3
    ELSE 0

\* C23: within one repository the steps run in the order commit, pull,
\* push: no operation of an earlier step follows one of a later step, each
\* step is entered at most once, and a failed step changes nothing of it.
C23_CommitPullPushOrder ==
    /\ \A j, k \in 1..Len(log) :
         (/\ j < k
          /\ log[j].repo = log[k].repo
          /\ StepOf(log[j].ev) > 0 /\ StepOf(log[k].ev) > 0)
         => StepOf(log[j].ev) <= StepOf(log[k].ev)
    /\ \A j, k \in 1..Len(log) :
         (/\ j < k
          /\ log[j].repo = log[k].repo
          /\ log[j].ev \in StepCalls)
         => log[k].ev # log[j].ev
    /\ pc = "commit" => ~Invoked(log, CurIdx, StepCalls \cup GitWrites)
    /\ pc = "pull" => ~Invoked(log, CurIdx, {"pull_repository", "git_pull",
                                               "push_repository", "git_push"})
    /\ pc = "push" => ~Invoked(log, CurIdx, {"push_repository", "git_push"})

C23_Witness ==
    /\ pc = "append"
    /\ ~dry_run
    /\ result.committed
    /\ result.errors = <<ErrPull>>
    /\ result.pushed
    /\ \E j, k, l \in 1..Len(log) :
         /\ j < k /\ k < l
         /\ log[j] = Ev(CurIdx, "git_commit")
         /\ log[k] = Ev(CurIdx, "git_pull")
         /\ log[l] = Ev(CurIdx, "git_push")

\* C24: after a successful commit or a successful pull, the push step
\* attempts the push exactly when the ahead count an inspection of the
\* repository gives at that moment is greater than 0; git push itself runs
\* only with such a count.
C24_PushOnCurrentAhead ==
    [][(pc = "push" /\ (result.committed \/ result.pulled))
       => LET a == get_repo_status(CurRepo).ahead IN
          /\ Invoked(log', CurIdx, {"push_repository"}) <=> a > 0
          /\ Invoked(log', CurIdx, {"git_push"})
             <=> (a > 0 /\ ~dry_run /\ CurRepo.remote)]_vars

C24_Witness ==
    /\ pc = "finish"
    /\ ~dry_run /\ auto_commit
    /\ result.committed /\ result.pulled /\ result.pushed
    /\ first_status.ahead = 0 /\ first_status.behind > 0
    /\ Invoked(log, CurIdx, {"git_commit"})
    /\ Invoked(log, CurIdx, {"git_pull"})
    /\ Invoked(log, CurIdx, {"git_push"})

\* C25: when the configuration is absent or resolves no repository, every
\* scanned directory that holds version-control metadata (and opens as a
\* repository) is in the returned list, named from the URL of its remote
\* or, without a remote, after the directory.
C25_EveryLocalRepoDetected ==
    (pc = "l_return" /\ ConfigDerived = <<>>)
    => \A p \in Range(Scanned) :
         (fs.dirs[p].git /\ fs.dirs[p].opens)
         => Ref(NameFromUrl(p, fs.dirs[p]), p) \in Range(located)

\* C26: with a token client and a local scan (step 2) that produced
\* nothing, every repository the organization lists that has a candidate
\* directory is in the returned list, whether or not step 3 added the
\* agents repository.
C26_ApiAfterEmptyScan ==
    (/\ pc = "l_return"
     /\ fs.client /\ fs.org.ok
     /\ ConfigDerived = <<>>
     /\ DetectLocal(fs, 1) = <<>>)
    => \A k \in 1..Len(fs.org.names) :
         LET n == fs.org.names[k] IN
         CandidatePath(fs, n) # "none"
         => Ref(n, CandidatePath(fs, n)) \in Range(located)

\* C27: a missing or malformed configuration file never aborts repository
\* resolution: the locator goes on with the remaining sources and returns
\* a list.
C27_ResolutionNeverAborts ==
    fs.file \in {"absent", "malformed"} => pc # "l_raised"

\* C28: in a real run, when the repository had local changes (modified,
\* staged or untracked files) and the commit step sets committed, a commit
\* was created in that step and the repository has no uncommitted change
\* left.
C28_CommittedMeansCommit ==
    [][(/\ pc = "commit" /\ ~dry_run
        /\ Dirty(CurRepo)
        /\ ~result.committed /\ result'.committed)
       => (/\ Invoked(log', CurIdx, {"git_commit"})
           /\ repos'[CurIdx].ahead = CurRepo.ahead + 1
           /\ ~Dirty(repos'[CurIdx]))]_vars

\* C29: for the same repository and auto_commit, the dry run reports the
\* committed, pulled and pushed flags of the real run, when no git query
\* fails and the real run records no error.
C29_PreviewMatchesRealRun ==
    (/\ pc = "summary" /\ ~dry_run
     /\ Len(results) = 2
     /\ repos[1].faults = {}
     /\ results[2].errors = <<>>)
    => /\ results[1].committed = results[2].committed
       /\ results[1].pulled = results[2].pulled
       /\ results[1].pushed = results[2].pushed

\* C30: every result of update_repository with success = false carries at
\* least one error, whichever return produced it: the missing directory,
\* the invalid status, the conflict or the end of the commit, pull and push
\* steps; so does every entry run collects.
C30_UnsuccessfulHasReason ==
    /\ (pc = "append" /\ ~result.success) => result.errors # <<>>
    /\ \A k \in 1..Len(results) :
         ~results[k].success => results[k].errors # <<>>

C30_Witness ==
    /\ pc = "append"
    /\ ~result.success
    /\ result.committed
    /\ result.errors = <<ErrPush>>
    /\ Invoked(log, CurIdx, {"git_push"})

====
